---- MODULE Spec2Model ----
(***************************************************************************)
(* TrackTik bulk PDF downloader (src/app.py): a Streamlit script that logs *)
(* in to a portal (perform_login), keeps the session in st.session_state,  *)
(* and on every script run with an uploaded CSV and a stored session       *)
(* fetches one PDF per row into a ZIP archive.                             *)
(*                                                                         *)
(* Text (str, bytes) is a sequence of one-character strings.               *)
(***************************************************************************)
EXTENDS Integers, Sequences, FiniteSets, TLC

VARIABLES
    session_state,  \* st.session_state: NoSession, or the id of the stored session
    pc,             \* position of the script run
    creds,          \* username and password are both non-empty
    clicked,        \* st.button("Login") returned True in this run
    base_url,       \* the text of the base URL input
    uploaded_csv,   \* the uploaded file (NoFile when none)
    r,              \* perform_login's r: the login page's response
    resp,           \* perform_login's resp: the POST's response
    session,        \* the script's session: perform_login's result, then the stored one
    msg,            \* the message perform_login returned
    net,            \* the requests issued in this run, in order
    inflight,       \* requests sent and not yet answered
    idx,            \* the row the fetch loop is at (1-based)
    zf,             \* the entries written to the ZipFile, in order
    zfState,        \* "none": no ZipFile; "open"; "closed"
    closes,         \* how many times zf.close() ran in this run
    log,            \* st.success / st.error lines of the fetch loop, one per row
    resps,          \* the fetch loop's r, row after row: what each GET brought
    buttons,        \* the per-file st.download_button calls
    zipOffer,       \* the "Download ZIP" button: offered or not, and its data
    err,            \* the st.error messages shown outside the loop, in order
    nlogin,         \* perform_login calls so far (names the sessions)
    returned,       \* the sessions perform_login has returned
    lastLogin,      \* how the latest perform_login call ended
    arg,            \* input of a pure function under test
    out             \* its result

appVars == <<session_state, pc, creds, clicked, base_url, uploaded_csv, r, resp,
             session, msg, net, inflight, idx, zf, zfState, closes, log,
             resps, buttons, zipOffer, err, nlogin, returned, lastLogin>>

fnVars == <<arg, out>>

vars == <<appVars, fnVars>>

----------------------------------------------------------------------------
(* Bounds of the model *)

\* longest input of safe_filename
MaxLen == 3
\* longest path suffix of a base URL
MaxTail == 2
\* longest padding around the word in a login response body
MaxPad == 1
\* most rows of an uploaded CSV
MaxRows == 2
\* most perform_login calls in a behaviour
MaxLogins == 2

----------------------------------------------------------------------------
(* Text helpers *)

Lowercase == <<"a", "b", "c", "d", "e", "f", "g", "h", "i", "j", "k", "l", "m",
               "n", "o", "p", "q", "r", "s", "t", "u", "v", "w", "x", "y", "z">>

Uppercase == <<"A", "B", "C", "D", "E", "F", "G", "H", "I", "J", "K", "L", "M",
               "N", "O", "P", "Q", "R", "S", "T", "U", "V", "W", "X", "Y", "Z">>

Digits == {"0", "1", "2", "3", "4", "5", "6", "7", "8", "9"}

Range(f) == {f[i] : i \in DOMAIN f}

\* all texts over alphabet A of length at most n
Texts(A, n) == UNION {[1..k -> A] : k \in 0..n}

\* str.lower() on one ASCII character
LowerChar(c) ==
    IF \E i \in 1..26 : Uppercase[i] = c
    THEN Lowercase[CHOOSE i \in 1..26 : Uppercase[i] = c]
    ELSE c

\* str.lower()
Lower(s) == [i \in 1..Len(s) |-> LowerChar(s[i])]

\* bytes.startswith / str.startswith
StartsWith(s, p) == Len(s) >= Len(p) /\ SubSeq(s, 1, Len(p)) = p

\* the `in` operator on str: p occurs in s
Contains(s, p) ==
    \E i \in 1..(Len(s) - Len(p) + 1) : SubSeq(s, i, i + Len(p) - 1) = p

\* least index >= from of a character of cs in s; Len(s)+1 when there is none
Find(s, cs, from) ==
    IF \E i \in from..Len(s) : s[i] \in cs
    THEN CHOOSE i \in from..Len(s) :
            s[i] \in cs /\ \A j \in from..(i - 1) : s[j] \notin cs
    ELSE Len(s) + 1

\* s[from:]
Tail_(s, from) == SubSeq(s, from, Len(s))

\* a missing CSV cell: pandas reads it as the float NaN, not as a str
NaN == <<"float('nan')">>

\* str(v), also what an f-string puts for v
Str(v) == IF v = NaN THEN <<"n", "a", "n">> ELSE v

----------------------------------------------------------------------------
(* safe_filename *)

\* the character class [\\/*?:"<>|]
Forbidden == {"\\", "/", "*", "?", ":", "\"", "<", ">", "|"}

\* a bug: the backslash of the class is taken as an escape and lost
safe_filename_noBackslash(s) ==
    [i \in 1..Len(Str(s)) |->
        IF Str(s)[i] \in Forbidden \ {"\\"} THEN "_" ELSE Str(s)[i]]

\* re.sub(r'[\\/*?:"<>|]', "_", str(s))
safe_filename(s) ==
    [i \in 1..Len(Str(s)) |-> IF Str(s)[i] \in Forbidden THEN "_" ELSE Str(s)[i]]

----------------------------------------------------------------------------
(* urllib.parse.urljoin, as the script calls it: the second argument is    *)
(* either empty or an absolute path without scheme, authority, query,      *)
(* fragment or dot segments.                                               *)

SchemeChars == Range(Lowercase) \cup Range(Uppercase) \cup Digits \cup {"+", "-", "."}

UsesRelative ==
    {<<>>, <<"f", "t", "p">>, <<"h", "t", "t", "p">>,
     <<"g", "o", "p", "h", "e", "r">>, <<"n", "n", "t", "p">>,
     <<"i", "m", "a", "p">>, <<"w", "a", "i", "s">>, <<"f", "i", "l", "e">>,
     <<"h", "t", "t", "p", "s">>, <<"s", "h", "t", "t", "p">>,
     <<"m", "m", "s">>, <<"p", "r", "o", "s", "p", "e", "r", "o">>,
     <<"r", "t", "s", "p">>, <<"r", "t", "s", "p", "s">>,
     <<"r", "t", "s", "p", "u">>, <<"s", "f", "t", "p">>, <<"s", "v", "n">>,
     <<"s", "v", "n", "+", "s", "s", "h">>, <<"w", "s">>, <<"w", "s", "s">>}

\* urlsplit: the scheme and authority of a URL, and what follows them
UrlSplit(url) ==
    LET i == Find(url, {":"}, 1)
        hasScheme ==
            /\ i > 1 /\ i <= Len(url)
            /\ url[1] \in Range(Lowercase) \cup Range(Uppercase)
            /\ \A k \in 1..(i - 1) : url[k] \in SchemeChars
        scheme == IF hasScheme THEN Lower(SubSeq(url, 1, i - 1)) ELSE <<>>
        rest == IF hasScheme THEN Tail_(url, i + 1) ELSE url
        hasNetloc == StartsWith(rest, <<"/", "/">>)
        delim == Find(rest, {"/", "?", "#"}, 3)
    IN  [scheme |-> scheme,
         netloc |-> IF hasNetloc THEN SubSeq(rest, 3, delim - 1) ELSE <<>>,
         rest |-> IF hasNetloc THEN Tail_(rest, delim) ELSE rest]

\* urlunsplit of (scheme, netloc, path, '', ''), path starting with "/"
UrlUnsplit(scheme, netloc, path) ==
    LET withNet == IF netloc # <<>> \/ (scheme # <<>> /\ ~StartsWith(path, <<"/", "/">>))
                   THEN <<"/", "/">> \o netloc \o path
                   ELSE path
    IN  IF scheme # <<>> THEN scheme \o <<":">> \o withNet ELSE withNet

\* a bug: the base and the path are put together as text
urljoin_concat(base, url) == base \o url

\* urljoin(base, url)
urljoin(base, url) ==
    IF base = <<>> THEN url
    ELSE IF url = <<>> THEN base
    ELSE LET b == UrlSplit(base)
         IN  IF b.scheme \notin UsesRelative
             THEN url
             ELSE UrlUnsplit(b.scheme, b.netloc, url)

\* "/patrol/default/viewreportprintable/idreport/"
ReportPath ==
    <<"/", "p", "a", "t", "r", "o", "l", "/", "d", "e", "f", "a", "u", "l", "t",
      "/", "v", "i", "e", "w", "r", "e", "p", "o", "r", "t", "p", "r", "i", "n",
      "t", "a", "b", "l", "e", "/", "i", "d", "r", "e", "p", "o", "r", "t", "/">>

\* login_action
LoginAction ==
    <<"/", "f", "o", "r", "m", "/", "s", "e", "c", "u", "r", "s", "i", "g", "n",
      "i", "n", "/", "s", "i", "g", "n", "i", "n">>

\* report_base_url
report_base_url(base) == urljoin(base, ReportPath)

\* pdf_url = f"{report_base_url}{rid}"
pdf_url(base, rid) == report_base_url(base) \o Str(rid)

----------------------------------------------------------------------------
(* The output filename of a row *)

RequiredCols == {"id", "reportname", "account.name", "date"}

\* f"{safe_filename(reportname)}_{safe_filename(account.name)}_{safe_filename(date)}_({rid}).pdf"
Filename(row) ==
    safe_filename(row["reportname"]) \o <<"_">>
      \o safe_filename(row["account.name"]) \o <<"_">>
      \o safe_filename(row["date"]) \o <<"_", "(">>
      \o Str(row["id"]) \o <<")", ".", "p", "d", "f">>

----------------------------------------------------------------------------
(* Responses *)

\* a response, or the exception the request raised instead
Response(exc, status, body, inputs) ==
    [exc |-> exc, status |-> status, body |-> body, inputs |-> inputs]

NoResponse == Response(FALSE, 0, <<>>, {})

Raised == Response(TRUE, 0, <<>>, {})

\* soup.find("input", {"name": "_csrf_token"}) found an element
HasToken(rs) == "_csrf_token" \in rs.inputs

\* a bug: the token check is left out
PageOk_noToken(rs) == rs.status = 200

\* the login page is usable: status 200 and the token input is there
PageOk(rs) == rs.status = 200 /\ HasToken(rs)

\* a bug: the search is case-sensitive
ClassifyLogin_caseSensitive(rs) ==
    IF rs.status = 200 /\ Contains(rs.body, <<"l", "o", "g", "o", "u", "t">>)
    THEN "success"
    ELSE IF rs.status \in {200, 302} THEN "sent" ELSE "failed"

\* the heuristic on the POST's response
ClassifyLogin(rs) ==
    IF rs.status = 200 /\ Contains(Lower(rs.body), <<"l", "o", "g", "o", "u", "t">>)
    THEN "success"
    ELSE IF rs.status \in {200, 302} THEN "sent" ELSE "failed"

\* a bug: the status alone decides
IsPdf_statusOnly(rs) == rs.status = 200

\* the validation of a report response
IsPdf(rs) == rs.status = 200 /\ StartsWith(rs.body, <<"%", "P", "D", "F">>)

----------------------------------------------------------------------------
(* What the user and the portal can supply *)

\* 'session' not in st.session_state / perform_login's None
NoSession == 0

\* the base URLs a run is given: none, or a portal root
MainBases == {<<>>, <<"h", "t", "t", "p", ":", "/", "/", "h", "/">>}

\* the rows a CSV is made of, as pd.read_csv(dtype=str) yields them
SampleRows ==
    {[c \in RequiredCols |->
        CASE c = "id" -> <<"7">>
          [] c = "reportname" -> <<"a", "/", "b">>
          [] c = "account.name" -> <<"c">>
          [] c = "date" -> <<"1", ":", "2">>],
     [c \in RequiredCols |->
        CASE c = "id" -> <<"8">>
          [] c = "reportname" -> <<"a">>
          [] c = "account.name" -> <<"c", "?">>
          [] c = "date" -> NaN]}

\* the column sets of an uploaded CSV: all required, or one missing
ColSets == {RequiredCols} \cup {RequiredCols \ {c} : c \in RequiredCols}

NoFile == [present |-> FALSE, readable |-> FALSE, columns |-> {}, rows |-> <<>>]

Unreadable == [present |-> TRUE, readable |-> FALSE, columns |-> {}, rows |-> <<>>]

Csvs ==
    {[present |-> TRUE, readable |-> TRUE, columns |-> cols,
      rows |-> [i \in 1..Len(rows) |-> [c \in cols |-> rows[i][c]]]] :
        cols \in ColSets, rows \in Texts(SampleRows, MaxRows)}

Uploads == {NoFile, Unreadable} \cup Csvs

WithToken == {"email", "password", "_csrf_token"}

\* what the GET of the login page can bring
LoginPageResponses ==
    {Raised, Response(FALSE, 500, <<>>, WithToken),
     Response(FALSE, 200, <<>>, {"email", "password"}),
     Response(FALSE, 200, <<>>, WithToken)}

\* what the login POST can bring
LoginPostResponses ==
    {Raised,
     Response(FALSE, 200, <<"<", "L", "o", "g", "O", "U", "T", ">">>, {}),
     Response(FALSE, 200, <<"l", "o", "g", "i", "n">>, {}),
     Response(FALSE, 302, <<>>, {}),
     Response(FALSE, 401, <<"l", "o", "g", "o", "u", "t">>, {})}

\* what the GET of a report can bring
ReportResponses ==
    {Raised,
     Response(FALSE, 200, <<"%", "P", "D", "F", "x">>, {}),
     Response(FALSE, 200, <<"<", "h", ">">>, {}),
     Response(FALSE, 200, <<"%", "P", "D">>, {}),
     Response(FALSE, 404, <<"%", "P", "D", "F", "x">>, {})}

Request(at, method, url, sess) ==
    [at |-> at, method |-> method, url |-> url, sess |-> sess]

----------------------------------------------------------------------------
(* The script *)

InitApp ==
    /\ session_state = NoSession
    /\ pc = "idle"
    /\ creds = FALSE
    /\ clicked = FALSE
    /\ base_url = <<>>
    /\ uploaded_csv = NoFile
    /\ r = NoResponse
    /\ resp = NoResponse
    /\ session = NoSession
    /\ msg = ""
    /\ net = <<>>
    /\ inflight = 0
    /\ idx = 1
    /\ zf = <<>>
    /\ zfState = "none"
    /\ closes = 0
    /\ log = <<>>
    /\ resps = <<>>
    /\ buttons = <<>>
    /\ zipOffer = [offered |-> FALSE, data |-> <<>>]
    /\ err = <<>>
    /\ nlogin = 0
    /\ returned = {}
    /\ lastLogin = "none"

NotCalled == [done |-> FALSE, val |-> <<>>]

Init == InitApp /\ arg = <<>> /\ out = NotCalled

persistent == <<session_state, nlogin, returned, lastLogin>>

fetchVars == <<idx, zf, zfState, closes, log, resps, buttons, zipOffer>>

inputs == <<creds, clicked, base_url, uploaded_csv>>

\* a user interaction: Streamlit runs the script from the top, with nothing
\* of the previous run left but st.session_state
Rerun ==
    /\ pc = "idle"
    /\ pc' = "L69"
    /\ creds' = FALSE
    /\ clicked' = FALSE
    /\ base_url' = <<>>
    /\ uploaded_csv' = NoFile
    /\ r' = NoResponse
    /\ resp' = NoResponse
    /\ session' = NoSession
    /\ msg' = ""
    /\ net' = <<>>
    /\ idx' = 1
    /\ zf' = <<>>
    /\ zfState' = "none"
    /\ closes' = 0
    /\ log' = <<>>
    /\ resps' = <<>>
    /\ buttons' = <<>>
    /\ zipOffer' = [offered |-> FALSE, data |-> <<>>]
    /\ err' = <<>>
    /\ UNCHANGED <<inflight, persistent, fnVars>>

\* session, msg = perform_login(...) has returned: if session: ... else: ...
LoginReturn(s, m) ==
    /\ session' = s
    /\ msg' = m
    /\ IF s # NoSession
       THEN /\ session_state' = s
            /\ returned' = returned \cup {s}
            /\ lastLogin' = "session"
            /\ err' = err
       ELSE /\ lastLogin' = "error"
            /\ err' = Append(err, m)
            /\ UNCHANGED <<session_state, returned>>
    /\ pc' = "L86"

\* the three text inputs and st.button("Login") give their values; if the
\* button was clicked: the fields check, and perform_login up to its GET
LoginButton ==
    /\ pc = "L69"
    /\ \E b \in MainBases, c \in BOOLEAN, k \in BOOLEAN :
          /\ (k /\ c /\ b # <<>>) => nlogin < MaxLogins
          /\ base_url' = b
          /\ creds' = c
          /\ clicked' = k
          /\ IF ~k
             THEN /\ pc' = "L86"
                  /\ UNCHANGED <<session, net, inflight, err, nlogin>>
             ELSE IF b = <<>> \/ ~c
             THEN /\ err' = Append(err, "Please fill all fields")
                  /\ pc' = "L86"
                  /\ UNCHANGED <<session, net, inflight, nlogin>>
             ELSE /\ nlogin' = nlogin + 1
                  /\ session' = nlogin + 1
                  /\ net' = Append(net, Request("L28", "GET", urljoin(b, <<>>),
                                                nlogin + 1))
                  /\ inflight' = inflight + 1
                  /\ pc' = "L28"
                  /\ err' = err
    /\ UNCHANGED <<session_state, returned, lastLogin, r, resp, msg,
                   uploaded_csv, fetchVars, fnVars>>

\* the login page arrives (or the GET raises); the token is looked up
LoginPage ==
    /\ pc = "L28"
    /\ \E rs \in LoginPageResponses :
          /\ r' = rs
          /\ IF rs.exc
             THEN LoginReturn(NoSession, "Could not load login page: exception")
             ELSE IF rs.status # 200
             THEN LoginReturn(NoSession, "Could not load login page (status)")
             ELSE IF ~PageOk(rs)
             THEN LoginReturn(NoSession, "CSRF token not found on login page")
             ELSE /\ pc' = "L43"
                  /\ UNCHANGED <<session, msg, err, persistent>>
    /\ inflight' = inflight - 1
    /\ UNCHANGED <<resp, net, nlogin, inputs, fetchVars, fnVars>>

\* session.post(login_url, ...)
LoginPost ==
    /\ pc = "L43"
    /\ net' = Append(net, Request("L54", "POST", urljoin(base_url, LoginAction),
                                  session))
    /\ inflight' = inflight + 1
    /\ pc' = "L54"
    /\ UNCHANGED <<r, resp, session, msg, err, persistent, inputs, fetchVars,
                   fnVars>>

\* what perform_login returns once the POST has ended
LoginOutcome(sess, rs) ==
    IF rs.exc
    THEN [session |-> NoSession, msg |-> "Login request failed: exception"]
    ELSE CASE ClassifyLogin(rs) = "success" ->
                [session |-> sess, msg |-> "Login successful!"]
           [] ClassifyLogin(rs) = "sent" ->
                [session |-> sess, msg |-> "Login sent; check session cookies"]
           [] OTHER ->
                [session |-> NoSession, msg |-> "Login failed (HTTP status)"]

\* the POST's response arrives (or the POST raises) and is classified
LoginResult ==
    /\ pc = "L54"
    /\ \E rs \in LoginPostResponses :
          /\ resp' = rs
          /\ LoginReturn(LoginOutcome(session, rs).session,
                         LoginOutcome(session, rs).msg)
    /\ inflight' = inflight - 1
    /\ UNCHANGED <<r, net, nlogin, inputs, fetchVars, fnVars>>

\* a bug: the fetch phase does not ask for a stored session
HasSession_always == TRUE

\* "session" in st.session_state
HasSession == session_state # NoSession

\* a bug: the date column is not asked for
ColumnsOk_noDate(df) == {"id", "reportname", "account.name"} \subseteq df.columns

\* required_cols.issubset(df.columns)
ColumnsOk(df) == RequiredCols \subseteq df.columns

\* st.file_uploader gives the uploaded file; the guards of the fetch phase,
\* up to the open ZipFile
Upload ==
    /\ pc = "L86"
    /\ \E u \in Uploads :
          /\ uploaded_csv' = u
          /\ IF ~u.present
             THEN /\ pc' = "idle"
                  /\ UNCHANGED <<err, session, zfState>>
             ELSE IF ~HasSession
             THEN /\ err' = Append(err, "Please login first")
                  /\ pc' = "idle"
                  /\ UNCHANGED <<session, zfState>>
             ELSE IF ~u.readable
             THEN /\ err' = Append(err, "Failed to read CSV")
                  /\ pc' = "idle"
                  /\ UNCHANGED <<session, zfState>>
             ELSE IF ~ColumnsOk(u)
             THEN /\ err' = Append(err, "CSV must contain columns")
                  /\ pc' = "idle"
                  /\ UNCHANGED <<session, zfState>>
             ELSE /\ session' = session_state
                  /\ zfState' = "open"
                  /\ pc' = "L112"
                  /\ err' = err
    /\ UNCHANGED <<persistent, creds, clicked, base_url, r, resp, msg, net, inflight,
                   idx, zf, closes, log, resps, buttons, zipOffer, fnVars>>

\* a bug: the archive is offered without being closed
AfterLoop_noClose == "L141"

\* where the script goes when df.iterrows() is exhausted
AfterLoop == "L139"

\* for idx, row in df.iterrows(): the next row, up to its GET
LoopHead ==
    /\ pc = "L112"
    /\ IF idx > Len(uploaded_csv.rows)
       THEN /\ pc' = AfterLoop
            /\ UNCHANGED <<net, inflight, err>>
       ELSE IF ~(RequiredCols \subseteq DOMAIN uploaded_csv.rows[idx])
       THEN \* row[...] raises KeyError: the run ends
            /\ err' = Append(err, "KeyError")
            /\ pc' = "idle"
            /\ UNCHANGED <<net, inflight>>
       ELSE /\ net' = Append(net, Request("L122", "GET",
                          pdf_url(base_url, uploaded_csv.rows[idx]["id"]), session))
            /\ inflight' = inflight + 1
            /\ pc' = "L122"
            /\ err' = err
    /\ UNCHANGED <<persistent, inputs, r, resp, session, msg, fetchVars, fnVars>>

\* a bug: the next iteration skips a row
NextRow_skip(i) == i + 2

\* the loop's next row
NextRow(i) == i + 1

\* a bug: break in place of continue
AfterException_break == AfterLoop

\* except Exception: ... continue
AfterException == "L112"

\* the report's response arrives (or the GET raises) and is validated
FetchResult ==
    /\ pc = "L122"
    /\ \E rs \in ReportResponses :
          LET row == uploaded_csv.rows[idx]
              filename == Filename(row)
          IN  /\ resps' = Append(resps, rs)
              /\ IF rs.exc
                 THEN /\ log' = Append(log, [ok |-> FALSE, exc |-> TRUE,
                                             rid |-> row["id"], status |-> 0,
                                             name |-> <<>>])
                      /\ pc' = AfterException
                      /\ UNCHANGED <<zf, buttons>>
                 ELSE IF IsPdf(rs)
                 THEN /\ zf' = Append(zf, [name |-> filename, data |-> rs.body])
                      /\ log' = Append(log, [ok |-> TRUE, exc |-> FALSE,
                                             rid |-> row["id"], status |-> rs.status,
                                             name |-> filename])
                      /\ buttons' = Append(buttons,
                                           [name |-> filename, data |-> rs.body])
                      /\ pc' = "L112"
                 ELSE /\ log' = Append(log, [ok |-> FALSE, exc |-> FALSE,
                                             rid |-> row["id"], status |-> rs.status,
                                             name |-> <<>>])
                      /\ pc' = "L112"
                      /\ UNCHANGED <<zf, buttons>>
    /\ idx' = NextRow(idx)
    /\ inflight' = inflight - 1
    /\ UNCHANGED <<persistent, inputs, r, resp, session, msg, net, err, zfState,
                   closes, zipOffer, fnVars>>

\* zf.close()
CloseZip ==
    /\ pc = "L139"
    /\ zfState' = "closed"
    /\ closes' = closes + 1
    /\ pc' = "L141"
    /\ UNCHANGED <<persistent, inputs, r, resp, session, msg, net, inflight, err,
                   idx, zf, log, resps, buttons, zipOffer, fnVars>>

\* zip_buffer.getvalue(): the entries a reader finds; an archive that was
\* not closed has no central directory
getvalue == IF zfState = "closed" THEN zf ELSE <<>>

\* st.download_button("Download ZIP", data=zip_buffer.getvalue(), ...)
OfferZip ==
    /\ pc = "L141"
    /\ zipOffer' = [offered |-> TRUE, data |-> getvalue]
    /\ pc' = "idle"
    /\ UNCHANGED <<persistent, inputs, r, resp, session, msg, net, inflight, err,
                   idx, zf, zfState, closes, log, resps, buttons, fnVars>>

Next ==
    \/ Rerun
    \/ LoginButton
    \/ LoginPage
    \/ LoginPost
    \/ LoginResult
    \/ Upload
    \/ LoopHead
    \/ FetchResult
    \/ CloseZip
    \/ OfferZip

Spec == Init /\ [][Next]_vars

----------------------------------------------------------------------------
(* The pure functions on bounded inputs *)

\* every forbidden character, and three that are not
SafeAlphabet == Forbidden \cup {"a", "_", " "}

InitSafe == InitApp /\ arg \in Texts(SafeAlphabet, MaxLen) /\ out = NotCalled

CallSafe ==
    /\ ~out.done
    /\ out' = [done |-> TRUE, val |-> safe_filename(arg)]
    /\ UNCHANGED <<arg, appVars>>

SpecSafe == InitSafe /\ [][CallSafe]_vars

\* what a user may type before the path of a base URL
UrlPrefixes ==
    {<<>>, <<"h">>, <<"/", "/", "h">>,
     <<"h", "t", "t", "p", ":">>,
     <<"h", "t", "t", "p", ":", "/", "/", "h">>,
     <<"H", "t", "t", "p", ":", "/", "/", "H">>,
     <<"h", "t", "t", "p", "s", ":", "/", "/", "h", ".", "c">>,
     <<"m", "a", "i", "l", "t", "o", ":", "h">>}

UrlBases == {pre \o tl : pre \in UrlPrefixes, tl \in Texts({"/", "p"}, MaxTail)}

UrlIds == {<<"7">>, <<"1", "2">>, NaN}

InitUrl ==
    /\ InitApp
    /\ arg \in [base : UrlBases, rid : UrlIds]
    /\ out = NotCalled

CallUrl ==
    /\ ~out.done
    /\ out' = [done |-> TRUE, val |-> pdf_url(arg.base, arg.rid)]
    /\ UNCHANGED <<arg, appVars>>

SpecUrl == InitUrl /\ [][CallUrl]_vars

\* "logout" with each letter in lower case, in upper case, or replaced
LogoutWords ==
    {[i \in 1..6 |-> CASE w[i] = "lower" -> Lowercase[<<12, 15, 7, 15, 21, 20>>[i]]
                       [] w[i] = "upper" -> Uppercase[<<12, 15, 7, 15, 21, 20>>[i]]
                       [] OTHER -> "-"] :
        w \in [1..6 -> {"lower", "upper", "other"}]}

LoginBodies ==
    {a \o w \o b : a \in Texts({"x"}, MaxPad), w \in LogoutWords,
                   b \in Texts({"x"}, MaxPad)}

InitLogin ==
    /\ InitApp
    /\ arg \in {Response(FALSE, s, b, {}) : s \in {200, 201, 302, 401, 500},
                                             b \in LoginBodies}
    /\ out = NotCalled

CallLoginOutcome ==
    /\ ~out.done
    /\ out' = [done |-> TRUE, val |-> LoginOutcome(1, arg)]
    /\ UNCHANGED <<arg, appVars>>

SpecLogin == InitLogin /\ [][CallLoginOutcome]_vars

----------------------------------------------------------------------------
(* Properties *)

\* the rows of the uploaded CSV
Rows == uploaded_csv.rows

\* the requests of this run issued from the given line
IssuedAt(line) == SelectSeq(net, LAMBDA q : q.at = line)

\* the body begins with the four bytes %PDF
PdfSignature(body) ==
    /\ Len(body) >= 4
    /\ body[1] = "%" /\ body[2] = "P" /\ body[3] = "D" /\ body[4] = "F"

\* a report response that is to be saved
GoodReport(rs) == ~rs.exc /\ rs.status = 200 /\ PdfSignature(rs.body)

RECURSIVE SavedUpTo(_)
\* the (filename, bytes) pairs of the good responses among the first n
SavedUpTo(n) ==
    IF n = 0 THEN <<>>
    ELSE IF GoodReport(resps[n])
         THEN Append(SavedUpTo(n - 1),
                     [name |-> Filename(Rows[n]), data |-> resps[n].body])
         ELSE SavedUpTo(n - 1)

RECURSIVE LoggedOkUpTo(_)
\* the (filename, bytes) pairs of the rows the log marks as saved
LoggedOkUpTo(n) ==
    IF n = 0 THEN <<>>
    ELSE IF log[n].ok
         THEN Append(LoggedOkUpTo(n - 1),
                     [name |-> Filename(Rows[n]), data |-> resps[n].body])
         ELSE LoggedOkUpTo(n - 1)

(* C1: in the fetch loop a row is recorded as a success, its bytes written  *)
(* to the archive and offered for download, if and only if its GET returned *)
(* status 200 and a body beginning with %PDF; every other response is       *)
(* recorded as a failure and adds nothing to the archive.                   *)
C1_SuccessIffPdf ==
    /\ Len(log) = Len(resps)
    /\ \A i \in 1..Len(log) :
          /\ log[i].ok <=> GoodReport(resps[i])
          /\ ~log[i].ok => log[i].name = <<>>
    /\ LET saved == SavedUpTo(Len(resps))
       IN  zf = saved /\ buttons = saved

\* a saved row next to a row refused in spite of its status 200
C1_Witness ==
    \E i, j \in 1..Len(log) :
        /\ log[i].ok /\ zf # <<>>
        /\ ~log[j].ok /\ ~resps[j].exc /\ resps[j].status = 200

(* C2: a failing row never aborts the batch: every row is processed and     *)
(* reported exactly once, in order, and when the loop has ended the archive *)
(* holds exactly one entry per successful row, with that row's filename and *)
(* the bytes received, and no entry for a failed row.                       *)
C2_FailuresDoNotAbort ==
    /\ (pc = "idle" /\ zfState # "none") => (zfState = "closed" /\ zipOffer.offered)
    /\ zfState = "closed" =>
          /\ Len(log) = Len(Rows)
          /\ Len(resps) = Len(Rows)
          /\ \A i \in 1..Len(Rows) :
                /\ log[i].rid = Rows[i]["id"]
                /\ log[i].exc = resps[i].exc
                /\ ~log[i].exc => log[i].status = resps[i].status
          /\ zf = LoggedOkUpTo(Len(Rows))

\* a batch that ended after an exception, a refused response and a saved row
C2_Witness ==
    /\ zipOffer.offered
    /\ \E i, j \in 1..Len(log) :
          /\ i < j
          /\ ~log[i].ok
          /\ log[j].ok
          /\ \E k \in 1..Len(log) : log[k].exc

(* C3 (as amended): report GETs are issued only with the session a login    *)
(* attempt returned and the handler stored; before any attempt has returned *)
(* a session none is issued. A later attempt that ends in an error leaves   *)
(* the stored session in place and does not block the fetch phase.          *)
C3_FetchOnlyWithStoredSession ==
    /\ \A i \in 1..Len(net) :
          net[i].at = "L122" =>
             /\ net[i].sess # NoSession
             /\ net[i].sess \in returned
             /\ net[i].sess = session_state
    /\ zfState # "none" => session_state \in returned
    /\ session_state # NoSession => session_state \in returned

\* a report GET in flight although the latest login attempt ended in an error
C3_Witness ==
    /\ pc = "L122"
    /\ lastLogin = "error"
    /\ session_state \in returned

(* C3 as the spec states it: after a login attempt that ended in an error   *)
(* no report GET is issued until a later attempt returns a session.         *)
C3_Original == lastLogin = "error" => IssuedAt("L122") = <<>>

(* C4: when the uploaded spreadsheet lacks one of the columns id,           *)
(* reportname, account.name, date, the run ends with the validation error   *)
(* before the loop: no report GET is issued, no archive is made or offered, *)
(* however many rows there are.                                             *)
C4_MissingColumnAborts ==
    (uploaded_csv.present /\ uploaded_csv.readable
       /\ \E c \in {"id", "reportname", "account.name", "date"} :
             c \notin uploaded_csv.columns)
    => /\ pc = "idle"
       /\ IssuedAt("L122") = <<>>
       /\ zfState = "none" /\ zf = <<>> /\ closes = 0
       /\ buttons = <<>> /\ ~zipOffer.offered
       /\ log = <<>>
       /\ err # <<>>
       /\ session_state # NoSession => err[Len(err)] = "CSV must contain columns"

\* a stored session and a CSV of several rows that lacks the date column
C4_Witness ==
    /\ session_state # NoSession
    /\ uploaded_csv.present /\ uploaded_csv.readable
    /\ "date" \notin uploaded_csv.columns
    /\ Len(Rows) >= 2
    /\ pc = "idle"

(* C5: in one call of perform_login the POST is issued only after the GET   *)
(* of the login page ended with status 200 and an input named _csrf_token;  *)
(* if the GET raises, returns another status or the page lacks the input,   *)
(* the call returns an error, no session, and issues no POST. A call makes  *)
(* at most one GET and at most one POST.                                    *)
C5_PostOnlyAfterGoodPage ==
    /\ Cardinality({i \in 1..Len(net) : net[i].at = "L28"}) <= 1
    /\ Cardinality({i \in 1..Len(net) : net[i].at = "L54"}) <= 1
    /\ \A j \in 1..Len(net) :
          net[j].at = "L54" =>
             /\ \E i \in 1..(j - 1) : net[i].at = "L28" /\ net[i].sess = net[j].sess
             /\ ~r.exc /\ r.status = 200 /\ "_csrf_token" \in r.inputs
    /\ ((\E i \in 1..Len(net) : net[i].at = "L28") /\ pc # "L28"
          /\ (r.exc \/ r.status # 200 \/ "_csrf_token" \notin r.inputs))
       => /\ \A j \in 1..Len(net) : net[j].at # "L54"
          /\ lastLogin = "error"
          /\ msg \in {"Could not load login page: exception",
                      "Could not load login page (status)",
                      "CSRF token not found on login page"}
          /\ err # <<>> /\ err[1] = msg
          /\ pc = "L86" => session = NoSession

\* the POST is in flight
C5_Witness ==
    /\ pc = "L54"
    /\ Len(IssuedAt("L28")) = 1
    /\ Len(IssuedAt("L54")) = 1

\* "logout" occurs in the body, each letter in either case
HasLogoutAnyCase(body) ==
    \E i \in 1..(Len(body) - 5) :
        /\ body[i] \in {"l", "L"}
        /\ body[i + 1] \in {"o", "O"}
        /\ body[i + 2] \in {"g", "G"}
        /\ body[i + 3] \in {"o", "O"}
        /\ body[i + 4] \in {"u", "U"}
        /\ body[i + 5] \in {"t", "T"}

(* C6: what perform_login returns after the POST depends on the response's  *)
(* status and body only: status 200 with "logout" in the body in any letter *)
(* case gives the session and the success message; status 200 or 302        *)
(* without it gives the session and the distinct "sent" message; any other  *)
(* status gives an error and no session.                                    *)
C6_LoginClassification ==
    out.done =>
       /\ (arg.status = 200 /\ HasLogoutAnyCase(arg.body))
             => out.val = [session |-> 1, msg |-> "Login successful!"]
       /\ (arg.status \in {200, 302} /\ ~HasLogoutAnyCase(arg.body))
             => out.val = [session |-> 1, msg |-> "Login sent; check session cookies"]
       /\ arg.status \notin {200, 302}
             => out.val = [session |-> NoSession, msg |-> "Login failed (HTTP status)"]

\* a status 200 body with "logout" in mixed case was classified a success
C6_Witness ==
    /\ out.done
    /\ arg.status = 200
    /\ HasLogoutAnyCase(arg.body)
    /\ ~Contains(arg.body, <<"l", "o", "g", "o", "u", "t">>)
    /\ out.val.session # NoSession

\* the base URL is an http or https URL with a host
IsHttpBase(b) ==
    \E n \in {7, 8} :
        /\ Len(b) > n
        /\ Lower(SubSeq(b, 1, n)) \in {<<"h", "t", "t", "p", ":", "/", "/">>,
                                       <<"h", "t", "t", "p", "s", ":", "/", "/">>}
        /\ b[n + 1] \notin {"/", "?", "#"}

\* the scheme (in lower case) and authority of an http(s) base URL: what
\* comes before the first "/", "?" or "#" after the "://"
Origin(b) ==
    LET n == IF Lower(SubSeq(b, 1, 7)) = <<"h", "t", "t", "p", ":", "/", "/">>
             THEN 7 ELSE 8
        e == Find(b, {"/", "?", "#"}, n + 1)
    IN  Lower(SubSeq(b, 1, n)) \o SubSeq(b, n + 1, e - 1)

(* C7 (as amended): for an http(s) base URL the URL requested for a report  *)
(* is the base URL's scheme (in lower case) and authority, followed by      *)
(* /patrol/default/viewreportprintable/idreport/ and the text of the id     *)
(* ("nan" for an empty cell): a trailing slash or path of the base URL is   *)
(* dropped. It is the base URL followed by the path and the id exactly when *)
(* the base URL is nothing but a lower-case scheme and an authority.        *)
C7_UrlFromOrigin ==
    (out.done /\ IsHttpBase(arg.base)) =>
       /\ out.val = Origin(arg.base) \o ReportPath \o Str(arg.rid)
       /\ (out.val = arg.base \o ReportPath \o Str(arg.rid))
             <=> (arg.base = Origin(arg.base))

\* a base URL with a path, whose path the requested URL has lost
C7_Witness ==
    /\ out.done
    /\ IsHttpBase(arg.base)
    /\ arg.base # Origin(arg.base)
    /\ Len(arg.base) > Len(Origin(arg.base)) + 1
    /\ out.val = Origin(arg.base) \o ReportPath \o Str(arg.rid)

(* C7 as the spec states it: the URL is the base URL followed by the path   *)
(* followed by the id, nothing inserted or removed.                         *)
C7_Original ==
    (out.done /\ IsHttpBase(arg.base) /\ arg.rid # NaN) =>
        out.val = arg.base \o ReportPath \o arg.rid

(* C8 (as amended): safe_filename(s) is as long as s, holds none of the     *)
(* characters \ / * ? : " < > |, has "_" at every position where s has one  *)
(* of them and equals s at every other position; so it has "_" exactly      *)
(* where s has one of them or "_" itself, is the identity on strings        *)
(* without them, and is idempotent.                                         *)
C8_SafeFilename ==
    out.done =>
       /\ Len(out.val) = Len(arg)
       /\ \A i \in 1..Len(arg) :
             /\ out.val[i] \notin {"\\", "/", "*", "?", ":", "\"", "<", ">", "|"}
             /\ arg[i] \in {"\\", "/", "*", "?", ":", "\"", "<", ">", "|"}
                   => out.val[i] = "_"
             /\ arg[i] \notin {"\\", "/", "*", "?", ":", "\"", "<", ">", "|"}
                   => out.val[i] = arg[i]
             /\ out.val[i] = "_"
                   <=> arg[i] \in {"\\", "/", "*", "?", ":", "\"", "<", ">", "|", "_"}
       /\ (\A i \in 1..Len(arg) :
              arg[i] \notin {"\\", "/", "*", "?", ":", "\"", "<", ">", "|"})
             => out.val = arg
       /\ safe_filename(out.val) = out.val

\* a string with a backslash, an underscore and a plain character
C8_Witness ==
    /\ out.done
    /\ \E i, j, k \in 1..Len(arg) :
          /\ arg[i] = "\\" /\ out.val[i] = "_"
          /\ arg[j] = "_" /\ out.val[j] = "_"
          /\ arg[k] = "a" /\ out.val[k] = "a"

(* C8 as the spec states it: the result has "_" at exactly the positions    *)
(* where s has one of the nine characters.                                  *)
C8_Original ==
    out.done =>
       \A i \in 1..Len(arg) :
           out.val[i] = "_"
              <=> arg[i] \in {"\\", "/", "*", "?", ":", "\"", "<", ">", "|"}

(* C9: with a stored session and a CSV that has the required columns, the   *)
(* report GETs of the fetch phase are those of the row ids in row order:    *)
(* one GET per row, never two requests in flight, each answered before the  *)
(* next is issued, and no row requested again after a failure.              *)
C9_GetsInRowOrder ==
    /\ inflight \in {0, 1}
    /\ inflight = 1 <=> pc \in {"L28", "L54", "L122"}
    /\ zfState # "none" =>
          LET g == IssuedAt("L122")
              rb == report_base_url(base_url)
          IN  /\ Len(g) <= Len(Rows)
              /\ \A i \in 1..Len(g) :
                    /\ g[i].method = "GET"
                    /\ g[i].url = rb \o Str(Rows[i]["id"])
              /\ Len(g) = Len(resps) + (IF pc = "L122" THEN 1 ELSE 0)
              /\ zfState = "closed" => Len(g) = Len(Rows)

\* a finished loop over two different rows, the first of which failed
C9_Witness ==
    /\ zfState = "closed"
    /\ Len(Rows) >= 2
    /\ Rows[1]["id"] # Rows[2]["id"]
    /\ ~log[1].ok
    /\ Len(IssuedAt("L122")) = Len(Rows)

\* what holds of the archive in every state
C10_State ==
    /\ closes <= 1
    /\ zfState = "closed" <=> closes = 1
    /\ zfState = "closed" =>
          /\ idx > Len(Rows)
          /\ Len(log) = Len(Rows)
          /\ pc \in {"L141", "idle"}
    /\ zipOffer.offered =>
          /\ zfState = "closed"
          /\ zipOffer.data = zf
          /\ zf = SavedUpTo(Len(Rows))

(* C10: the archive is finalized exactly once per batch, only after the     *)
(* last descriptor has been processed, and is not modified afterwards: no   *)
(* entry is written after finalization, and the bytes offered for download  *)
(* are taken after finalization and hold every successful row.              *)
C10_FinalizedOnce ==
    [][/\ C10_State'
       /\ (zfState = "closed" /\ zfState' = "closed") =>
             (zf' = zf /\ closes' = closes)
       /\ (zipOffer.offered /\ zipOffer'.offered) => zipOffer' = zipOffer]_vars

\* the archive of a batch with a saved and a failed row is on offer
C10_Witness ==
    /\ zipOffer.offered
    /\ zipOffer.data # <<>>
    /\ Len(zipOffer.data) < Len(Rows)

====
